---- MODULE Spec2Model ----
(***************************************************************************)
(* The solar-panel current logger: the two sketches SolarFinalVer2.ino     *)
(* (averaging optional, clock fault repaired in place) and                 *)
(* solardatalog.ino (peripherals re-checked in every cycle, clock fault    *)
(* halts).  One module models both; `variant` says which sketch runs.      *)
(*                                                                         *)
(* Modelling decisions                                                     *)
(*  - A float is a rational <<numerator, denominator>>; sensor readings    *)
(*    are whole numbers, a division keeps the divisor.  Rounding of the    *)
(*    float arithmetic and the text rendering of file.print(float) belong  *)
(*    to the Arduino core, not to the sketches, and are not modelled.      *)
(*  - A timestamp is the triple <<hour, minute, second>> that StoreData    *)
(*    concatenates with ":" separators.                                    *)
(*  - A character is its ASCII code, kept in 8 bits.                       *)
(*  - The clock is observed at two instants per day (TimesOfDay) on two    *)
(*    dates; Tick moves it to the next one and over midnight.              *)
(*  - The card is a function from file names to the rows they hold.        *)
(*  - Peripherals change presence only where a sketch can observe it: any  *)
(*    of them before a restart (Reset), the sensor and the card also       *)
(*    before a cycle of solardatalog.ino, which re-checks them (Rewire).   *)
(*  - An unsigned long is [high, low], standing for high * 2^32 + low, so   *)
(*    that a negative int handed to delay() stays within small numbers.    *)
(*  - waited, cycles, nsamples, rows0, group, emitted, adjusts are history *)
(*    variables: they record what happened and steer nothing.              *)
(***************************************************************************)
EXTENDS Integers, Sequences, FiniteSets, TLC

VARIABLES
    variant,             \* which sketch is flashed
    averaged,            \* user parameter `averaged`
    datapoints,          \* user parameter `datapoints`
    frequency,           \* user parameter `frequency`, seconds
    pc,                  \* "boot", "loop", "delay1", "delay2", "blink", "halt"
    rtcPresent,          \* rtc.begin() answers
    rtcRunning,          \* rtc.isrunning()
    rtcDate,             \* date held by the DS1307: [year, month, day]
    rtcTime,             \* index into TimesOfDay of the time it holds
    sdPresent,           \* SD.begin(10) answers
    inaPresent,          \* ina219.init() answers
    start_time,          \* global start_time (its date)
    filename,            \* global filename, 12 character codes
    files,               \* the card: file name -> sequence of rows
    fileOpen,            \* global file: the handle is open
    averagedcurrent_mA,  \* global running total
    counter,             \* global counter
    led,                 \* level of LEDPIN
    serial,              \* lines printed on Serial in this session
    waited,              \* history: milliseconds spent in delay() in this cycle
    cycles,              \* history: loop iterations that reached ReadData
    nsamples,            \* history: sensor samples taken since startup
    rows0,               \* history: data rows on the card at startup
    group,               \* history: samples (value, clock) since the last row
    emitted,             \* history: the group the last appended row closed
    adjusts              \* history: calls of rtc.adjust since power-on

vars == <<variant, averaged, datapoints, frequency, pc, rtcPresent, rtcRunning,
          rtcDate, rtcTime, sdPresent, inaPresent, start_time, filename, files,
          fileOpen, averagedcurrent_mA, counter, led, serial, waited, cycles,
          nsamples, rows0, group, emitted, adjusts>>

envVars == <<rtcPresent, rtcRunning, rtcDate, rtcTime, sdPresent, inaPresent>>
cfgVars == <<variant, averaged, datapoints, frequency>>

----------------------------------------------------------------------------
(* Bounds of the model *)

MaxDatapoints == 2      \* datapoints ranges over 1..MaxDatapoints
MaxSamples == 4         \* samples taken in one session
MaxRows == 2            \* data rows written to the card in one behaviour
MaxFrequency == 66      \* frequency ranges over 1..MaxFrequency where it is varied

(* Program constants *)

DefaultDatapoints == 10
FrequencyVer2 == 5
FrequencyLog == 20

Optimistic == "SolarFinalVer2"
Conservative == "solardatalog"
Variants == {Optimistic, Conservative}

\* the sensor readings the model draws from
Readings == {0, 1}

\* __DATE__ and __TIME__ of the build
BuildDate == [year |-> 2024, month |-> 5, day |-> 9]
TimesOfDay == << <<9, 5, 3>>, <<23, 59, 59>> >>
BuildTime == 1

\* the dates the clock runs through: the build date and the day after
ClockDates == {BuildDate, [BuildDate EXCEPT !.day = @ + 1]}
LastDay == BuildDate.day + 1

----------------------------------------------------------------------------
(* Characters and the file name *)

Char(c) == c % 256
Zero == 48

\* "YYYYMMDD.csv"
InitialFilename == <<89, 89, 89, 89, 77, 77, 68, 68, 46, 99, 115, 118>>
Extension == <<46, 99, 115, 118>>

\* '0' + d, stored in a char
Digit(d) == Char(Zero + d)

GenerateFilenameNoMod(t) ==
    << Digit(t.year \div 1000),
       Digit(t.year \div 100),
       Digit((t.year \div 10) % 10),
       Digit(t.year % 10),
       Digit((t.month \div 10) % 10),
       Digit(t.month % 10),
       Digit((t.day \div 10) % 10),
       Digit(t.day % 10) >> \o Extension

\* filename[0..7] from start_time; the extension is left as declared
GenerateFilename(t) ==
    << Digit(t.year \div 1000),
       Digit((t.year \div 100) % 10),
       Digit((t.year \div 10) % 10),
       Digit(t.year % 10),
       Digit((t.month \div 10) % 10),
       Digit(t.month % 10),
       Digit((t.day \div 10) % 10),
       Digit(t.day % 10) >> \o Extension

----------------------------------------------------------------------------
(* The card *)

\* file.println("Time, Current (mA)")
Header == [kind |-> "Time, Current (mA)", time |-> <<>>, value |-> <<>>]

FileSize(fs, name) == IF name \in DOMAIN fs THEN Len(fs[name]) ELSE 0

OpenTruncate(fs, name) == (name :> <<>>) @@ fs

\* SD.open(name, FILE_WRITE): create the file if it is missing, write at its end
OpenFileWrite(fs, name) == IF name \in DOMAIN fs THEN fs ELSE (name :> <<>>) @@ fs

PrintlnAtStart(fs, name, row) == [fs EXCEPT ![name] = << row >> \o @]

\* file.println(...) through the open handle
Println(fs, name, row) == [fs EXCEPT ![name] = Append(@, row)]

HeaderAlways(fs, name) == TRUE

\* if (file.size() == 0)
HeaderNeeded(fs, name) == FileSize(fs, name) = 0

\* setup: open, header if empty, close
WriteHeader(fs, name) ==
    LET opened == OpenFileWrite(fs, name)
    IN  IF HeaderNeeded(opened, name) THEN Println(opened, name, Header) ELSE opened

IsData(row) == row.kind = "data"

RECURSIVE CountData(_)
CountData(rows) ==
    IF rows = <<>> THEN 0
    ELSE (IF IsData(rows[1]) THEN 1 ELSE 0) + CountData(Tail(rows))

RECURSIVE CountHeaders(_)
CountHeaders(rows) ==
    IF rows = <<>> THEN 0
    ELSE (IF IsData(rows[1]) THEN 0 ELSE 1) + CountHeaders(Tail(rows))

RECURSIVE CardData(_, _)
CardData(fs, names) ==
    IF names = {} THEN 0
    ELSE LET n == CHOOSE x \in names : TRUE
         IN  CountData(fs[n]) + CardData(fs, names \ {n})

\* data rows held by the whole card
DataRows(fs) == CardData(fs, DOMAIN fs)

----------------------------------------------------------------------------
(* The clock *)

\* rtc.now(): hour, minute, second
Now == TimesOfDay[rtcTime]

\* what the clock shows, for the history variables
Clock == [date |-> rtcDate, time |-> rtcTime]

TimestampOfFirstSample == IF group # <<>> THEN TimesOfDay[group[1].at.time] ELSE Now

\* StoreData: DateTime now = rtc.now(); currtime = hour ":" minute ":" second
Timestamp == Now

----------------------------------------------------------------------------
(* Serial *)

Line(text) == [text |-> text, arg |-> <<>>]
LineWith(text, arg) == [text |-> text, arg |-> arg]

IsError(line) == line.text \in
    { "Error : RTC not detected!", "Error : RTC lost power!",
      "Error : SD card not detected!", "Error : INA219 not connected!",
      "Error : INA219 not connected! Connect the INA219, then push the reset button",
      "Error : SD card not detected! Attach the SD card, then push the reset button" }

RtcAbsentLines == << Line("Error : RTC not detected!"),
                     Line("Attach the RTC, then push the reset button") >>
RtcLostPowerLines == << Line("Error : RTC lost power!"),
                        Line("RTC will be set to when this sketch was compiled") >>
SdAbsentLines == << Line("Error : SD card not detected!"),
                    Line("Attach the SD card, then push the reset button") >>
InaAbsentLines == << Line("Error : INA219 not connected!"),
                     Line("Connect the INA219, then push the reset button") >>
AllOkLines(name) == << Line("All checks OK!"),
                       LineWith("Data will be stored into ", name), Line("") >>

----------------------------------------------------------------------------
(* StoreData and ReadData *)

DataRow(currentvalue) == [kind |-> "data", time |-> Timestamp, value |-> currentvalue]

FileOfToday == GenerateFilename(rtcDate)

\* the name loop hands to SD.open: the global filename as setup left it
SessionFile == filename

StoreDataSkipsFile(fs, currentvalue) == fs

\* StoreData, the card: one row "<currtime>,<currentvalue>," through the open handle
StoreDataFile(fs, currentvalue) == Println(fs, SessionFile, DataRow(currentvalue))

\* StoreData, the serial monitor
StoreDataSerial(currentvalue) ==
    << LineWith("At ", Timestamp), LineWith("Current[mA]: ", currentvalue),
       Line("Data stored!"), Line("") >>

ThresholdPassed(c) == c > datapoints

\* if (counter == datapoints)
ThresholdReached(c) == c = datapoints

\* current_mA = averagedcurrent_mA / datapoints
Average(total) == <<total, datapoints>>

\* ReadData of SolarFinalVer2.ino, with the handle open on card fs
ReadDataVer2(current_mA, fs) ==
    /\ nsamples' = nsamples + 1
    /\ IF averaged
       THEN LET total == averagedcurrent_mA + current_mA
                count == counter + 1
                taken == Append(group, [val |-> current_mA, at |-> Clock])
            IN  /\ averagedcurrent_mA' = total
                /\ IF ThresholdReached(count)
                   THEN /\ files' = StoreDataFile(fs, Average(total))
                        /\ serial' = serial \o StoreDataSerial(Average(total))
                        /\ counter' = 0
                        /\ group' = <<>>
                        /\ emitted' = taken
                   ELSE /\ files' = fs
                        /\ serial' = serial
                        /\ counter' = count
                        /\ group' = taken
                        /\ emitted' = emitted
       ELSE /\ files' = StoreDataFile(fs, <<current_mA, 1>>)
            /\ serial' = serial \o StoreDataSerial(<<current_mA, 1>>)
            /\ group' = <<>>
            /\ emitted' = << [val |-> current_mA, at |-> Clock] >>
            /\ UNCHANGED <<averagedcurrent_mA, counter>>

\* ReadData of solardatalog.ino, with the handle open on card fs
ReadDataLog(current_mA, fs) ==
    /\ nsamples' = nsamples + 1
    /\ files' = StoreDataFile(fs, <<current_mA, 1>>)
    /\ serial' = serial \o StoreDataSerial(<<current_mA, 1>>)
    /\ group' = <<>>
    /\ emitted' = << [val |-> current_mA, at |-> Clock] >>
    /\ UNCHANGED <<averagedcurrent_mA, counter>>

----------------------------------------------------------------------------
(* The file handle and delay() *)

FileLeftOpen == TRUE

\* file.close(): the handle that SD.open returned is closed again
FileClose == FALSE

\* the largest int of the Uno
IntMax == 32767

\* two's complement in 16 bits
Wrap16(x) == ((x + IntMax + 1) % (2 * (IntMax + 1))) - (IntMax + 1)

\* a * b in int: the product when it fits; an overflow is undefined, the build
\* may wrap it to 16 bits or carry on with the wide product
IntProduct(a, b) == IF a * b <= IntMax THEN {a * b} ELSE {Wrap16(a * b), a * b}

\* an int handed to delay(unsigned long): a negative one counts from 2^32
ToUnsignedLong(x) == IF x >= 0 THEN [high |-> 0, low |-> x] ELSE [high |-> 1, low |-> x]

NoWait == [high |-> 0, low |-> 0]

Plus(a, b) == [high |-> a.high + b.high, low |-> a.low + b.low]

WholePeriod == IntProduct(frequency, 1000)

\* frequency*500, the argument of both delays of SolarFinalVer2.ino
HalfPeriod == IntProduct(frequency, 500)

\* frequency/2, the rounds of the for loop of solardatalog.ino
BlinkRounds == frequency \div 2

\* (frequency/frequency)*1000, the argument of its delays
BlinkDelay == (frequency \div frequency) * 1000

----------------------------------------------------------------------------
(* setup *)

HaltLedUntouched(level) == level

\* the level of LEDPIN when a sketch enters a halt: solardatalog.ino writes HIGH
\* before each of its endless loops, SolarFinalVer2.ino leaves the pin alone
HaltLed(level) == IF variant = Conservative THEN "HIGH" ELSE level

StopOptimisticNoSensor ==
    IF ~rtcPresent THEN "rtc" ELSE IF ~sdPresent THEN "sd" ELSE "ok"

StopOptimisticSensorFirst ==
    IF ~inaPresent THEN "ina"
    ELSE IF ~rtcPresent THEN "rtc"
    ELSE IF ~sdPresent THEN "sd"
    ELSE "ok"

\* the check of SolarFinalVer2.ino's setup that ends in an endless loop, if any
StopOptimistic ==
    IF ~rtcPresent THEN "rtc"
    ELSE IF ~sdPresent THEN "sd"
    ELSE IF ~inaPresent THEN "ina"
    ELSE "ok"

StopConservativeClockGoesOn ==
    IF ~inaPresent THEN "ina"
    ELSE IF ~rtcPresent THEN "rtc"
    ELSE IF ~sdPresent THEN "sd"
    ELSE "ok"

\* the check of solardatalog.ino's setup that ends in an endless loop, if any
StopConservative ==
    IF ~inaPresent THEN "ina"
    ELSE IF ~rtcPresent THEN "rtc"
    ELSE IF ~rtcRunning THEN "clock"
    ELSE IF ~sdPresent THEN "sd"
    ELSE "ok"

\* rtc.adjust(DateTime(F(__DATE__), F(__TIME__))): the clock is set and started
RtcAdjust ==
    /\ rtcDate' = BuildDate
    /\ rtcTime' = BuildTime
    /\ rtcRunning' = TRUE
    /\ adjusts' = adjusts + 1

\* setup of SolarFinalVer2.ino
SetupVer2 ==
    /\ pc = "boot"
    /\ variant = Optimistic
    /\ LET stop == StopOptimistic
           adjust == rtcPresent /\ ~rtcRunning
           date == IF adjust THEN BuildDate ELSE rtcDate
           name == GenerateFilename(date)
           opened == stop \in {"ina", "ok"}
       IN  /\ pc' = IF stop = "ok" THEN "loop" ELSE "halt"
           /\ led' = IF stop = "ok" THEN "LOW" ELSE HaltLed("LOW")
           /\ IF adjust THEN RtcAdjust
                        ELSE UNCHANGED <<rtcDate, rtcTime, rtcRunning, adjusts>>
           /\ start_time' = IF opened THEN date ELSE start_time
           /\ filename' = IF opened THEN name ELSE filename
           /\ files' = IF opened THEN WriteHeader(files, name) ELSE files
           /\ fileOpen' = IF opened THEN FileClose ELSE fileOpen
           /\ serial' =
                IF stop = "rtc" THEN RtcAbsentLines
                ELSE << Line("RTC detected!") >>
                     \o (IF adjust THEN RtcLostPowerLines ELSE << Line("RTC OK!") >>)
                     \o (IF stop = "sd" THEN SdAbsentLines
                         ELSE << Line("SD card detected!"), Line("SD card OK!") >>
                              \o (IF stop = "ina" THEN InaAbsentLines
                                  ELSE << Line("INA219 detected!") >> \o AllOkLines(name)))
    /\ UNCHANGED <<cfgVars, rtcPresent, sdPresent, inaPresent, averagedcurrent_mA,
                   counter, waited, cycles, nsamples, rows0, group, emitted>>

\* setup of solardatalog.ino
SetupLog ==
    /\ pc = "boot"
    /\ variant = Conservative
    /\ LET stop == StopConservative
           adjust == inaPresent /\ rtcPresent /\ ~rtcRunning
           name == GenerateFilename(rtcDate)
       IN  /\ pc' = IF stop = "ok" THEN "loop" ELSE "halt"
           /\ led' = IF stop = "ok" THEN "LOW" ELSE HaltLed("LOW")
           /\ IF adjust THEN RtcAdjust
                        ELSE UNCHANGED <<rtcDate, rtcTime, rtcRunning, adjusts>>
           /\ start_time' = IF stop = "ok" THEN rtcDate ELSE start_time
           /\ filename' = IF stop = "ok" THEN name ELSE filename
           /\ files' = IF stop = "ok" THEN WriteHeader(files, name) ELSE files
           /\ fileOpen' = IF stop = "ok" THEN FileClose ELSE fileOpen
           /\ serial' =
                IF stop = "ina" THEN InaAbsentLines
                ELSE << Line("INA219 detected!") >>
                     \o (IF stop = "rtc" THEN RtcAbsentLines
                         ELSE << Line("RTC detected!") >>
                              \o (IF adjust THEN RtcLostPowerLines
                                  ELSE << Line("RTC OK!") >>
                                       \o (IF stop = "sd" THEN SdAbsentLines
                                           ELSE << Line("SD card detected!"),
                                                   Line("SD card OK!") >>
                                                \o AllOkLines(name))))
    /\ UNCHANGED <<cfgVars, rtcPresent, sdPresent, inaPresent, averagedcurrent_mA,
                   counter, waited, cycles, nsamples, rows0, group, emitted>>

----------------------------------------------------------------------------
(* loop *)

\* the model stops sampling at its bounds
WithinBounds == nsamples < MaxSamples /\ DataRows(files) < MaxRows

\* loop of SolarFinalVer2.ino up to file.close()
LoopVer2 ==
    /\ pc = "loop"
    /\ variant = Optimistic
    /\ WithinBounds
    /\ led' = "HIGH"
    /\ \E current_mA \in Readings :
          ReadDataVer2(current_mA, OpenFileWrite(files, SessionFile))
    /\ fileOpen' = FileClose
    /\ waited' = NoWait
    /\ cycles' = cycles + 1
    /\ pc' = "delay1"
    /\ UNCHANGED <<cfgVars, envVars, start_time, filename, rows0, adjusts>>

\* delay(frequency*500); digitalWrite(LEDPIN, LOW);
Delay1 ==
    /\ pc = "delay1"
    /\ \E ms \in HalfPeriod : waited' = Plus(waited, ToUnsignedLong(ms))
    /\ led' = "LOW"
    /\ pc' = "delay2"
    /\ UNCHANGED <<cfgVars, envVars, start_time, filename, files, fileOpen,
                   averagedcurrent_mA, counter, serial, cycles, nsamples, rows0,
                   group, emitted, adjusts>>

\* delay(frequency*500); and loop returns
Delay2 ==
    /\ pc = "delay2"
    /\ \E ms \in HalfPeriod : waited' = Plus(waited, ToUnsignedLong(ms))
    /\ pc' = "loop"
    /\ UNCHANGED <<cfgVars, envVars, start_time, filename, files, fileOpen,
                   averagedcurrent_mA, counter, led, serial, cycles, nsamples, rows0,
                   group, emitted, adjusts>>

LoopStopNoCard == IF ~inaPresent THEN "ina" ELSE "ok"

\* the re-check at the top of solardatalog.ino's loop that ends in an endless
\* loop, if any
LoopStop ==
    IF ~inaPresent THEN "ina"
    ELSE IF ~sdPresent THEN "sd"
    ELSE "ok"

\* loop of solardatalog.ino up to file.close()
LoopLog ==
    /\ pc = "loop"
    /\ variant = Conservative
    /\ WithinBounds
    /\ IF LoopStop = "ina"
       THEN /\ serial' = Append(serial, Line(
                  "Error : INA219 not connected! Connect the INA219, then push the reset button"))
            /\ led' = HaltLed(led)
            /\ pc' = "halt"
            /\ UNCHANGED <<files, fileOpen, averagedcurrent_mA, counter, waited,
                           cycles, nsamples, group, emitted>>
       ELSE IF LoopStop = "sd"
       THEN /\ serial' = Append(serial, Line(
                  "Error : SD card not detected! Attach the SD card, then push the reset button"))
            /\ led' = HaltLed(led)
            /\ pc' = "halt"
            /\ UNCHANGED <<files, fileOpen, averagedcurrent_mA, counter, waited,
                           cycles, nsamples, group, emitted>>
       ELSE /\ \E current_mA \in Readings :
                  ReadDataLog(current_mA, OpenFileWrite(files, SessionFile))
            /\ fileOpen' = FileClose
            /\ waited' = NoWait
            /\ cycles' = cycles + 1
            /\ led' = led
            /\ pc' = "blink"
    /\ UNCHANGED <<cfgVars, envVars, start_time, filename, rows0, adjusts>>

\* the for loop of solardatalog.ino: frequency/2 rounds of HIGH, delay, LOW, delay
Blink ==
    /\ pc = "blink"
    /\ waited' = Plus(waited, ToUnsignedLong(BlinkRounds * (BlinkDelay + BlinkDelay)))
    /\ led' = IF BlinkRounds >= 1 THEN "LOW" ELSE led
    /\ pc' = "loop"
    /\ UNCHANGED <<cfgVars, envVars, start_time, filename, files, fileOpen,
                   averagedcurrent_mA, counter, serial, cycles, nsamples, rows0,
                   group, emitted, adjusts>>

----------------------------------------------------------------------------
(* The environment *)

\* the reset button or a power cycle, after the operator has attached or detached
\* what they wanted: the globals take their initial values, the card and the
\* battery-backed clock keep theirs
Reset ==
    /\ pc # "boot"
    /\ pc' = "boot"
    /\ start_time' = BuildDate
    /\ filename' = InitialFilename
    /\ averagedcurrent_mA' = 0
    /\ counter' = 0
    /\ led' = "LOW"
    /\ serial' = <<>>
    /\ fileOpen' = FALSE
    /\ waited' = NoWait
    /\ cycles' = 0
    /\ nsamples' = 0
    /\ rows0' = DataRows(files)
    /\ group' = <<>>
    /\ emitted' = <<>>
    /\ rtcPresent' \in BOOLEAN
    /\ sdPresent' \in BOOLEAN
    /\ inaPresent' \in BOOLEAN
    /\ UNCHANGED <<cfgVars, rtcRunning, rtcDate, rtcTime, files, adjusts>>

\* time passes on a running clock
Tick ==
    /\ rtcRunning
    /\ IF rtcTime < Len(TimesOfDay)
       THEN /\ rtcTime' = rtcTime + 1
            /\ rtcDate' = rtcDate
       ELSE /\ rtcDate.day < LastDay
            /\ rtcTime' = 1
            /\ rtcDate' = [rtcDate EXCEPT !.day = @ + 1]
    /\ UNCHANGED <<cfgVars, pc, rtcPresent, rtcRunning, sdPresent, inaPresent,
                   start_time, filename, files, fileOpen, averagedcurrent_mA, counter,
                   led, serial, waited, cycles, nsamples, rows0, group, emitted,
                   adjusts>>

\* the sensor or the card is pulled or put back while solardatalog.ino runs
Rewire ==
    /\ pc = "loop"
    /\ variant = Conservative
    /\ \/ sdPresent' = ~sdPresent /\ UNCHANGED inaPresent
       \/ inaPresent' = ~inaPresent /\ UNCHANGED sdPresent
    /\ UNCHANGED <<cfgVars, pc, rtcPresent, rtcRunning, rtcDate, rtcTime, start_time,
                   filename, files, fileOpen, averagedcurrent_mA, counter, led, serial,
                   waited, cycles, nsamples, rows0, group, emitted, adjusts>>

----------------------------------------------------------------------------
(* The specification *)

Configurations ==
    {[variant |-> Conservative, averaged |-> FALSE, datapoints |-> DefaultDatapoints,
      frequency |-> FrequencyLog],
     [variant |-> Optimistic, averaged |-> FALSE, datapoints |-> DefaultDatapoints,
      frequency |-> FrequencyVer2]}
    \cup {[variant |-> Optimistic, averaged |-> TRUE, datapoints |-> n,
            frequency |-> FrequencyVer2] : n \in 1..MaxDatapoints}

\* power-on with the globals as declared
Globals ==
    /\ pc = "boot"
    /\ start_time = BuildDate
    /\ filename = InitialFilename
    /\ averagedcurrent_mA = 0
    /\ counter = 0
    /\ led = "LOW"
    /\ serial = <<>>
    /\ fileOpen = FALSE
    /\ waited = NoWait
    /\ cycles = 0
    /\ nsamples = 0
    /\ rows0 = 0
    /\ group = <<>>
    /\ emitted = <<>>
    /\ adjusts = 0

Init ==
    /\ \E c \in Configurations :
          /\ variant = c.variant
          /\ averaged = c.averaged
          /\ datapoints = c.datapoints
          /\ frequency = c.frequency
    /\ rtcPresent \in BOOLEAN
    /\ rtcRunning \in BOOLEAN
    /\ sdPresent \in BOOLEAN
    /\ inaPresent \in BOOLEAN
    /\ rtcDate \in ClockDates
    /\ rtcTime \in 1..Len(TimesOfDay)
    /\ files = <<>>
    /\ Globals

Next ==
    \/ SetupVer2
    \/ SetupLog
    \/ LoopVer2
    \/ Delay1
    \/ Delay2
    \/ LoopLog
    \/ Blink
    \/ Reset
    \/ Tick
    \/ Rewire

Spec == Init /\ [][Next]_vars

----------------------------------------------------------------------------
(* Vocabulary of the properties *)

Range(seq) == {seq[i] : i \in DOMAIN seq}

IsPrefix(a, b) == Len(a) <= Len(b) /\ \A i \in DOMAIN a : a[i] = b[i]

RECURSIVE SumOfReadings(_)
SumOfReadings(samples) ==
    IF samples = <<>> THEN 0 ELSE samples[1].val + SumOfReadings(Tail(samples))

\* data rows appended since startup
AppendedRows == DataRows(files) - rows0

\* the row written last to the session's file
LastRow == files[filename][Len(files[filename])]

\* a step of setup
SetupStep == pc = "boot" /\ pc' # "boot"

IsDigit(c) == c \in 48..57

\* the number that eight decimal digit characters spell
RECURSIVE Spelled(_)
Spelled(chars) ==
    IF chars = <<>> THEN 0
    ELSE Spelled(SubSeq(chars, 1, Len(chars) - 1)) * 10 + (chars[Len(chars)] - 48)

HasSensorDiagnostic == Line("Error : INA219 not connected!") \in Range(serial)

----------------------------------------------------------------------------
(* C1: in averaging mode every appended row, the first one after startup and  *)
(* every later one, carries the arithmetic mean of exactly the datapoints     *)
(* samples taken since the previous row.  The sketch never clears             *)
(* averagedcurrent_mA, so the second row of a session already breaks this.    *)
C1_RowIsMeanOfItsGroup ==
    (averaged /\ emitted # <<>>) =>
        /\ Len(emitted) = datapoints
        /\ LastRow.value[1] * datapoints = SumOfReadings(emitted) * LastRow.value[2]

(* C2: in averaging mode, after k samples since startup exactly               *)
(* floor(k / datapoints) data rows have been appended, and counter holds the  *)
(* samples of the unfinished group.                                           *)
C2_RowsPerSamples ==
    averaged =>
        /\ AppendedRows = nsamples \div datapoints
        /\ counter = nsamples % datapoints
        /\ nsamples = cycles

C2_Witness ==
    /\ averaged
    /\ datapoints = 2
    /\ nsamples = 3
    /\ AppendedRows = 1

(* C3: without averaging every cycle that reaches ReadData takes one sample   *)
(* and appends one data row: after k cycles, k samples and k rows.            *)
C3_OneRowPerCycle ==
    ~averaged =>
        /\ nsamples = cycles
        /\ AppendedRows = cycles

C3_Witness ==
    /\ ~averaged
    /\ variant = Conservative
    /\ cycles = 2
    /\ AppendedRows = 2

(* C4: setup writes the header exactly when the dated file is empty as it is  *)
(* opened, and touches no row otherwise; so every file on the card holds one  *)
(* header row, and it is the first row.                                       *)
C4_HeaderOnce ==
    /\ [](\A name \in DOMAIN files :
             /\ files[name] # <<>>
             /\ files[name][1] = Header
             /\ CountHeaders(files[name]) = 1)
    /\ [][(SetupStep /\ filename' # InitialFilename) =>
             IF FileSize(files, filename') = 0
             THEN /\ files'[filename'] = << Header >>
                  /\ \A name \in DOMAIN files : files'[name] = files[name]
             ELSE files' = files]_vars

C4_Witness ==
    /\ pc = "loop"
    /\ cycles = 0
    /\ filename \in DOMAIN files
    /\ CountData(files[filename]) > 0
    /\ CountHeaders(files[filename]) = 1

----------------------------------------------------------------------------
(* The file name over every valid date: setup alone, from a clock that shows  *)
(* any year 0000..9999 (on 1 January) or any day of any month (in the years   *)
(* 0000, 2024 and 9999).                                                      *)

ValidDates ==
    {[year |-> y, month |-> 1, day |-> 1] : y \in 0..9999}
    \cup {[year |-> y, month |-> m, day |-> d] :
             y \in {0, BuildDate.year, 9999}, m \in 1..12, d \in 1..31}

InitFilename ==
    /\ variant \in Variants
    /\ averaged = FALSE
    /\ datapoints = DefaultDatapoints
    /\ frequency = (IF variant = Optimistic THEN FrequencyVer2 ELSE FrequencyLog)
    /\ rtcPresent = TRUE
    /\ rtcRunning = TRUE
    /\ sdPresent = TRUE
    /\ inaPresent = TRUE
    /\ rtcDate \in ValidDates
    /\ rtcTime = BuildTime
    /\ files = <<>>
    /\ Globals

NextFilename ==
    \/ SetupVer2
    \/ SetupLog

SpecFilename == InitFilename /\ [][NextFilename]_vars

(* C5: for every valid clock date read at startup the file name is the eight  *)
(* decimal digits of the zero-padded YYYYMMDD of that date, then ".csv".      *)
C5_FilenameIsDate ==
    pc = "loop" =>
        /\ Len(filename) = 12
        /\ \A i \in 1..8 : IsDigit(filename[i])
        /\ Spelled(SubSeq(filename, 1, 8)) =
              rtcDate.year * 10000 + rtcDate.month * 100 + rtcDate.day
        /\ SubSeq(filename, 9, 12) = <<46, 99, 115, 118>>

C5_Witness ==
    /\ pc = "loop"
    /\ rtcDate = [year |-> 9999, month |-> 12, day |-> 31]
    /\ filename = <<57, 57, 57, 57, 49, 50, 51, 49, 46, 99, 115, 118>>

----------------------------------------------------------------------------
(* C6: when the sensor fails its presence check in setup, the sketch prints   *)
(* the sensor diagnostic and halts; a halt is left only by a reset; and no    *)
(* data row is appended in a session whose setup reported the sensor.         *)
SensorCheckReached ==
    IF variant = Conservative THEN TRUE ELSE rtcPresent /\ sdPresent

C6_SensorAbsentHalts ==
    /\ [][(SetupStep /\ SensorCheckReached /\ ~inaPresent) =>
             (pc' = "halt" /\ Line("Error : INA219 not connected!") \in Range(serial'))]_vars
    /\ [][pc = "halt" =>
             \/ pc' = "halt" /\ files' = files /\ serial' = serial
             \/ pc' = "boot" /\ files' = files /\ serial' = <<>>]_vars
    /\ [](HasSensorDiagnostic => (pc = "halt" /\ AppendedRows = 0 /\ cycles = 0))

C6_Witness ==
    /\ pc = "halt"
    /\ HasSensorDiagnostic
    /\ ~inaPresent
    /\ DataRows(files) > 0

(* C7: every step only extends the files of the card: what a file held before *)
(* the step is a prefix of what it holds after it.                            *)
C7_FilesOnlyGrow ==
    [][\A name \in DOMAIN files :
          /\ name \in DOMAIN files'
          /\ IsPrefix(files[name], files'[name])]_vars

C7_Witness ==
    /\ rows0 > 0
    /\ filename \in DOMAIN files
    /\ CountData(files[filename]) = 2
    /\ AppendedRows = 1

(* C8, as stated: in every halt reached because a peripheral is absent a      *)
(* diagnostic has been printed and the indicator is HIGH, in either sketch.   *)
AbsentDiagnostic ==
    \E line \in Range(serial) :
        \/ line.text = "Error : RTC not detected!" /\ ~rtcPresent
        \/ line.text = "Error : SD card not detected!" /\ ~sdPresent
        \/ line.text = "Error : INA219 not connected!" /\ ~inaPresent
        \/ line.text =
             "Error : SD card not detected! Attach the SD card, then push the reset button"
           /\ ~sdPresent
        \/ line.text =
             "Error : INA219 not connected! Connect the INA219, then push the reset button"
           /\ ~inaPresent

\* the board is halted and the clock was not the reason
HaltedOnAbsence ==
    /\ pc = "halt"
    /\ Line("Error : RTC lost power!") \notin Range(serial)

ClockCheckReached ==
    rtcPresent /\ (variant = Conservative => inaPresent)

C9_ClockSetOnce ==
    /\ [](adjusts <= 1 /\ (adjusts = 1 => rtcRunning))
    /\ [][(SetupStep /\ ClockCheckReached /\ ~rtcRunning) =>
             /\ adjusts' = adjusts + 1
             /\ rtcDate' = BuildDate /\ rtcTime' = BuildTime
             /\ variant = Optimistic =>
                   /\ sdPresent =>
                         Spelled(SubSeq(filename', 1, 8)) =
                            BuildDate.year * 10000 + BuildDate.month * 100 + BuildDate.day
                   /\ pc' = (IF sdPresent /\ inaPresent THEN "loop" ELSE "halt")
             /\ variant = Conservative => (pc' = "halt" /\ files' = files)]_vars
    /\ [][(SetupStep /\ adjusts = 1 /\ rtcPresent /\ sdPresent /\ inaPresent) =>
             (pc' = "loop" /\ adjusts' = adjusts)]_vars

C9_Witness ==
    /\ variant = Conservative
    /\ adjusts = 1
    /\ pc = "loop"
    /\ start_time = BuildDate

(* C10: in averaging mode the time stored in a row is the clock time of the   *)
(* cycle that took the last sample of its group.                              *)
C10_StampOfLastSample ==
    (averaged /\ emitted # <<>>) =>
        LastRow.time = TimesOfDay[emitted[Len(emitted)].at.time]

C10_Witness ==
    /\ averaged
    /\ datapoints = 2
    /\ Len(emitted) = 2
    /\ emitted[1].at.time # emitted[2].at.time
    /\ LastRow.time = TimesOfDay[emitted[2].at.time]

----------------------------------------------------------------------------
(* C12: after each emitted averaged row the whole averaging state is zero     *)
(* until the next sample: running total and count.  The sketch clears only    *)
(* the count.                                                                 *)
C12_AveragingStateCleared ==
    (averaged /\ emitted # <<>> /\ group = <<>>) =>
        (averagedcurrent_mA = 0 /\ counter = 0)

(* C13: in averaging mode, between two calls of ReadData the count of the     *)
(* unfinished group stays below datapoints: 0 <= counter < datapoints, and    *)
(* it is the number of samples taken since the last row.                      *)
C13_CounterBelowThreshold ==
    averaged =>
        /\ counter \in 0..(datapoints - 1)
        /\ counter = Len(group)

C13_Witness ==
    /\ averaged
    /\ datapoints = 2
    /\ counter = 1
    /\ AppendedRows = 1

----------------------------------------------------------------------------
(* C15: solardatalog.ino checks the sensor and the card at the top of every   *)
(* cycle.  A cycle that finds one of them absent halts with the indicator     *)
(* HIGH and its diagnostic before the file is opened and takes no sample; a   *)
(* cycle that finds both stores its row; and nothing is appended while the    *)
(* board is halted.                                                           *)
CycleStart == pc = "loop" /\ pc' \notin {"loop", "boot"}

C15_RecheckEveryCycle ==
    /\ [][(variant = Conservative /\ CycleStart) =>
             IF ~inaPresent \/ ~sdPresent
             THEN /\ pc' = "halt"
                  /\ led' = "HIGH"
                  /\ files' = files
                  /\ nsamples' = nsamples
                  /\ Len(serial') = Len(serial) + 1
                  /\ IsError(serial'[Len(serial')])
             ELSE /\ pc' = "blink"
                  /\ DataRows(files') = DataRows(files) + 1]_vars
    /\ [][(pc = "halt" /\ pc' = "halt") => files' = files]_vars

C15_Witness ==
    /\ variant = Conservative
    /\ pc = "halt"
    /\ AppendedRows = 1
    /\ inaPresent
    /\ ~sdPresent
    /\ led = "HIGH"

----------------------------------------------------------------------------
(* C17: the file name is fixed by setup.  No step of the logger cycle changes *)
(* filename or start_time or touches another file, so every row of a session  *)
(* lands in the file named after the startup date, also after midnight.       *)
CycleStates == {"loop", "delay1", "delay2", "blink"}

DateNumber(t) == t.year * 10000 + t.month * 100 + t.day

C17_FilenameFixed ==
    /\ [](pc \in CycleStates =>
             /\ Spelled(SubSeq(filename, 1, 8)) = DateNumber(start_time)
             /\ filename \in DOMAIN files)
    /\ [][(pc \in CycleStates /\ pc' # "boot") =>
             /\ filename' = filename
             /\ start_time' = start_time
             /\ DOMAIN files' = DOMAIN files
             /\ \A name \in DOMAIN files : name # filename => files'[name] = files[name]]_vars

C17_Witness ==
    /\ pc \in CycleStates
    /\ rtcDate # start_time
    /\ emitted # <<>>
    /\ emitted[Len(emitted)].at.date # start_time
    /\ Spelled(SubSeq(filename, 1, 8)) = DateNumber(start_time)
    /\ LastRow.kind = "data"

----------------------------------------------------------------------------
(* Timestamps of consecutive rows *)

\* h:m:s of a is not later in the day than h:m:s of b
TimeLeq(a, b) ==
    \/ a[1] < b[1]
    \/ a[1] = b[1] /\ a[2] < b[2]
    \/ a[1] = b[1] /\ a[2] = b[2] /\ a[3] <= b[3]

\* the rows of the session's file that this session appended
SessionRows ==
    IF filename \in DOMAIN files
    THEN SubSeq(files[filename], Len(files[filename]) - AppendedRows + 1,
                Len(files[filename]))
    ELSE <<>>

----------------------------------------------------------------------------
(* The order of the startup checks, read off the serial monitor *)

\* setup ended in one of its endless loops
StartupHalt == pc = "halt" /\ Line("All checks OK!") \notin Range(serial)

\* a startup halt prints its error and then what to do about it
HaltDiagnostic == serial[Len(serial) - 1].text

AbsentError(p) ==
    IF p = "rtc" THEN "Error : RTC not detected!"
    ELSE IF p = "sd" THEN "Error : SD card not detected!"
    ELSE "Error : INA219 not connected!"

DetectedLine(p) ==
    IF p = "rtc" THEN "RTC detected!"
    ELSE IF p = "sd" THEN "SD card detected!"
    ELSE "INA219 detected!"

Present(p) ==
    IF p = "rtc" THEN rtcPresent ELSE IF p = "sd" THEN sdPresent ELSE inaPresent

Texts == {line.text : line \in Range(serial)}

\* the halt is the one of the first absent peripheral of `order`: those before
\* it were reported as detected, those after it were not looked at
HaltsInOrder(order) ==
    \E i \in DOMAIN order :
        /\ ~Present(order[i])
        /\ HaltDiagnostic = AbsentError(order[i])
        /\ \A j \in 1..(i - 1) : Present(order[j]) /\ DetectedLine(order[j]) \in Texts
        /\ \A j \in (i + 1)..Len(order) :
              DetectedLine(order[j]) \notin Texts /\ AbsentError(order[j]) \notin Texts

HaltedOnAbsentPeripheral ==
    StartupHalt /\ HaltDiagnostic \in {AbsentError(p) : p \in {"rtc", "sd", "ina"}}

(* C19, as stated: both sketches check clock, then storage, then sensor, and  *)
(* a startup halt is that of the first absent peripheral in this order.       *)
C19_ClockStorageSensor ==
    HaltedOnAbsentPeripheral => HaltsInOrder(<<"rtc", "sd", "ina">>)

(* C19, amended: SolarFinalVer2.ino checks clock, storage, sensor;            *)
(* solardatalog.ino checks sensor, clock, storage; in each sketch a startup   *)
(* halt is that of the first absent peripheral in the sketch's own order.     *)
C19_ChecksInSketchOrder ==
    HaltedOnAbsentPeripheral =>
        IF variant = Optimistic
        THEN HaltsInOrder(<<"rtc", "sd", "ina">>)
        ELSE HaltsInOrder(<<"ina", "rtc", "sd">>)

C19_Witness ==
    /\ HaltedOnAbsentPeripheral
    /\ variant = Optimistic
    /\ rtcPresent
    /\ ~sdPresent
    /\ ~inaPresent
    /\ HaltDiagnostic = "Error : SD card not detected!"

----------------------------------------------------------------------------
(* C20, as stated: a setup that ends in a halt leaves the card as it was.     *)
C20_HaltLeavesCardAlone ==
    [][(SetupStep /\ pc' = "halt") => files' = files]_vars

(* C20, amended: so it is in solardatalog.ino, and in SolarFinalVer2.ino when *)
(* the clock or the card is absent.  SolarFinalVer2.ino checks the sensor     *)
(* after it has opened the dated file: its sensor halt has created the file   *)
(* and written the header if the file was empty, and no data row.             *)
C20_HaltLeavesCardAloneBeforeOpen ==
    [][(SetupStep /\ pc' = "halt") =>
          IF variant = Optimistic /\ rtcPresent /\ sdPresent
          THEN /\ ~inaPresent
               /\ Spelled(SubSeq(filename', 1, 8)) = DateNumber(rtcDate')
               /\ IF FileSize(files, filename') = 0
                  THEN /\ DOMAIN files' = DOMAIN files \cup {filename'}
                       /\ files'[filename'] = << Header >>
                       /\ \A name \in DOMAIN files \ {filename'} :
                             files'[name] = files[name]
                  ELSE files' = files
          ELSE files' = files /\ filename' = filename]_vars

C20_Witness ==
    /\ StartupHalt
    /\ variant = Optimistic
    /\ ~inaPresent
    /\ filename \in DOMAIN files
    /\ files[filename] = << Header >>
    /\ Cardinality(DOMAIN files) = 2


----------------------------------------------------------------------------
(* C14: the file handle is opened and closed within one cycle: whenever the
   program waits between cycles or is halted (and at every other point
   between two steps) the handle is closed, and a data row reaches the card
   only in the step of a cycle that opens the file and closes it again. *)

Waiting == pc \in {"delay1", "delay2", "blink"}

C14_HandleClosedBetweenCycles ==
    /\ [](~fileOpen)
    /\ [][DataRows(files') # DataRows(files) => (CycleStart /\ ~fileOpen /\ ~fileOpen')]_vars

C14_Witness == Waiting /\ ~fileOpen /\ AppendedRows = 2 /\ cycles = 2


----------------------------------------------------------------------------
(* C16: the total blocking wait of one completed cycle is frequency x 1000
   milliseconds, in both sketches, for every frequency >= 1.  The sketches
   are run with every peripheral in place and the interval set by the user
   to any value from 1 to MaxFrequency seconds. *)

InitWait ==
    /\ variant \in Variants
    /\ averaged = FALSE
    /\ datapoints = DefaultDatapoints
    /\ frequency \in 1..MaxFrequency
    /\ rtcPresent = TRUE
    /\ rtcRunning = TRUE
    /\ sdPresent = TRUE
    /\ inaPresent = TRUE
    /\ rtcDate = BuildDate
    /\ rtcTime = BuildTime
    /\ files = <<>>
    /\ Globals

NextWait ==
    \/ SetupVer2
    \/ SetupLog
    \/ LoopVer2
    \/ Delay1
    \/ Delay2
    \/ LoopLog
    \/ Blink

SpecWait == InitWait /\ [][NextWait]_vars

CycleCompleted == pc = "loop" /\ cycles > 0

Interval == [high |-> 0, low |-> frequency * 1000]

C16_WaitIsInterval == CycleCompleted => waited = Interval

\* what the sketches do keep: the interval while frequency*500 fits an int,
\* and frequency rounded down to an even number of seconds
WaitWithinRange ==
    CycleCompleted =>
        IF variant = Optimistic
        THEN frequency * 500 <= IntMax => waited = Interval
        ELSE waited = [high |-> 0, low |-> (frequency \div 2) * 2000]


----------------------------------------------------------------------------
(* C11: once startup has succeeded the logger cycle has no terminal state.
   While no fault is detected every cycle completes and returns to sampling;
   a data row is appended in every cycle without averaging and in every
   datapoints-th cycle with it; the cycle is left only by the halt, and the
   halt is never left.  The microcontroller always executes its next
   statement, so every step of the program is weakly fair; the wiring may
   change or not.  The session is followed for as long as the bounds on
   samples and rows let the model go on. *)

InitLive ==
    /\ \E c \in Configurations :
          /\ variant = c.variant
          /\ averaged = c.averaged
          /\ datapoints = c.datapoints
          /\ frequency = c.frequency
    /\ rtcPresent \in BOOLEAN
    /\ rtcRunning \in BOOLEAN
    /\ sdPresent \in BOOLEAN
    /\ inaPresent \in BOOLEAN
    /\ rtcDate = BuildDate
    /\ rtcTime = BuildTime
    /\ files = <<>>
    /\ Globals

NextLive ==
    \/ SetupVer2
    \/ SetupLog
    \/ LoopVer2
    \/ Delay1
    \/ Delay2
    \/ LoopLog
    \/ Blink
    \/ Rewire

Fairness ==
    /\ WF_vars(SetupVer2)
    /\ WF_vars(SetupLog)
    /\ WF_vars(LoopVer2)
    /\ WF_vars(Delay1)
    /\ WF_vars(Delay2)
    /\ WF_vars(LoopLog)
    /\ WF_vars(Blink)

SpecLive == InitLive /\ [][NextLive]_vars /\ Fairness

\* samples still to take before the next row is due
SamplesToNextRow == IF averaged THEN datapoints - counter ELSE 1

\* the bounds of the model leave room for the next row
RoomForNextRow ==
    /\ DataRows(files) < MaxRows
    /\ nsamples + SamplesToNextRow <= MaxSamples

FaultDetected == variant = Conservative /\ (~sdPresent \/ ~inaPresent)

C11_CycleNeverEnds ==
    /\ [][(pc \in CycleStates) =>
             (/\ pc' \in CycleStates \cup {"halt"}
              /\ pc' = "halt" => (pc = "loop" /\ FaultDetected))]_vars
    /\ [](pc \in CycleStates =>
             AppendedRows = (IF averaged THEN cycles \div datapoints ELSE cycles))
    /\ Waiting ~> pc = "loop"
    /\ \A r \in 0..(MaxRows - 1) :
          (pc \in CycleStates /\ AppendedRows = r /\ RoomForNextRow)
              ~> (AppendedRows > r \/ pc = "halt")
    /\ [](pc = "halt" => [](pc = "halt"))

C11_Witness ==
    /\ pc = "loop"
    /\ averaged
    /\ datapoints = 2
    /\ cycles = 4
    /\ AppendedRows = 2

====
